---- MODULE Spec2Model ----
(***************************************************************************)
(* A model of the natans-chess rules engine: the 64-cell board, the        *)
(* declarative move templates of the six default pieces, the template      *)
(* interpreter (prune / prune_dir / check_conditions), the king-safety     *)
(* filter (is_safe_move / is_safe_position / get_danger_zone) and the      *)
(* game driver (make_move, promote, increment_turn).                       *)
(***************************************************************************)
EXTENDS Integers, Sequences, FiniteSets, TLC

VARIABLES board, turn_owner, turn_count, game_state, ret, call, script, ply

vars == <<board, turn_owner, turn_count, game_state, ret, call, script, ply>>

(***************************************************************************)
(* Primitive values                                                        *)
(***************************************************************************)

White == "White"
Black == "Black"

\* Option<u32>::None of Piece.last_moved
NoTurn == -1

\* Option<Piece>::None of a board cell
None ==
  [rank |-> "-", color |-> "-", is_crucial |-> FALSE, can_promote |-> FALSE,
   last_moved |-> NoTurn, times_moved |-> 0]

\* `x as u8`
U8(x) == x % 256

Squares == 0 .. 63

\* Position::Relative / Position::Global
Relative(x, y) == [rel |-> TRUE, x |-> x, y |-> y]

\* Effect::Capture / Effect::Move
Capture(p) == [kind |-> "Capture", p |-> p, p2 |-> p]
MoveEffect(p1, p2) == [kind |-> "Move", p |-> p1, p2 |-> p2]

\* pub fn position(pos, rel)
position(pos, rel) ==
  IF pos.rel THEN <<U8(pos.x + rel[1]), U8(pos.y + rel[2])>>
  ELSE <<pos.x, pos.y>>

(***************************************************************************)
(* Move templates and piece factories                                      *)
(***************************************************************************)

\* impl Default for PieceStatus
DefaultStatus ==
  [board_col |-> -1, board_row |-> -1,
   has_rel |-> FALSE, rel |-> <<0, 0>>,
   rank |-> "None", color |-> "Any",
   has_moved |-> <<"None", 0>>,
   has_last |-> FALSE, last_moved |-> 0]

\* impl Default for Move; maximum_slide None is -1
DefaultMove ==
  [maximum_slide |-> -1, minimum_slide |-> 1, directions |-> <<>>,
   can_capture |-> TRUE, color |-> White, mirror |-> "None",
   requirements |-> <<>>, effect |-> <<>>, safe_throughout |-> FALSE]

Enemy(color) == IF color = White THEN Black ELSE White

PawnMoves(color) ==
  LET mult == IF color = White THEN <<1, 0>> ELSE <<-1, 1>>
  IN << [DefaultMove EXCEPT !.maximum_slide = 1,
                            !.directions = << <<0, mult[1]>> >>,
                            !.can_capture = FALSE,
                            !.color = color],
        [DefaultMove EXCEPT !.maximum_slide = 2,
                            !.minimum_slide = 2,
                            !.directions = << <<0, mult[1]>> >>,
                            !.can_capture = FALSE,
                            !.requirements =
                               << [DefaultStatus EXCEPT !.has_rel = TRUE,
                                                        !.rel = <<0, 0>>,
                                                        !.rank = "p",
                                                        !.has_moved = <<"Exactly", 0>>] >>,
                            !.color = color],
        [DefaultMove EXCEPT !.maximum_slide = 1,
                            !.directions = << <<1, mult[1]>> >>,
                            !.mirror = "Horizontally",
                            !.requirements =
                               << [DefaultStatus EXCEPT !.has_rel = TRUE,
                                                        !.rel = <<1, mult[1]>>,
                                                        !.color = Enemy(color),
                                                        !.rank = "0"] >>,
                            !.color = color],
        [DefaultMove EXCEPT !.maximum_slide = 1,
                            !.directions = << <<1, mult[1]>> >>,
                            !.mirror = "Horizontally",
                            !.can_capture = FALSE,
                            !.requirements =
                               << [DefaultStatus EXCEPT !.rank = "p",
                                                        !.board_row = U8(8 * mult[2] + 4 * mult[1]),
                                                        !.has_rel = TRUE,
                                                        !.rel = <<1, 0>>,
                                                        !.has_moved = <<"Exactly", 1>>,
                                                        !.color = Black,
                                                        !.has_last = TRUE,
                                                        !.last_moved = 0] >>,
                            !.color = color,
                            !.effect = << Capture(Relative(1, 0)) >>] >>

RookMoves(color) ==
  << [DefaultMove EXCEPT !.directions = << <<0, 1>>, <<1, 0>> >>,
                         !.mirror = "VerAndHor",
                         !.color = color] >>

BishopMoves(color) ==
  << [DefaultMove EXCEPT !.directions = << <<1, 1>> >>,
                         !.mirror = "VerAndHor",
                         !.color = color] >>

KnightMoves(color) ==
  << [DefaultMove EXCEPT !.directions = << <<2, 1>>, <<1, 2>> >>,
                         !.mirror = "VerAndHor",
                         !.color = color] >>

QueenMoves(color) ==
  << [DefaultMove EXCEPT !.directions = << <<0, 1>>, <<1, 1>>, <<1, 0>> >>,
                         !.mirror = "VerAndHor",
                         !.color = color] >>

KingMoves(color) ==
  << [DefaultMove EXCEPT !.maximum_slide = 1,
                         !.directions = << <<0, 1>>, <<1, 1>>, <<1, 0>> >>,
                         !.mirror = "VerAndHor",
                         !.color = color],
     [DefaultMove EXCEPT !.maximum_slide = 2,
                         !.minimum_slide = 2,
                         !.can_capture = FALSE,
                         !.color = White,
                         !.directions = << <<1, 0>> >>,
                         !.safe_throughout = TRUE,
                         !.requirements =
                            << [DefaultStatus EXCEPT !.has_rel = TRUE,
                                                     !.rel = <<0, 0>>,
                                                     !.has_moved = <<"Exactly", 0>>],
                               [DefaultStatus EXCEPT !.has_rel = TRUE,
                                                     !.rel = <<3, 0>>,
                                                     !.color = color,
                                                     !.rank = "R",
                                                     !.has_moved = <<"Exactly", 0>>] >>,
                         !.effect = << MoveEffect(Relative(3, 0), Relative(1, 0)) >>],
     [DefaultMove EXCEPT !.maximum_slide = 2,
                         !.minimum_slide = 2,
                         !.can_capture = FALSE,
                         !.color = White,
                         !.directions = << <<-1, 0>> >>,
                         !.safe_throughout = TRUE,
                         !.requirements =
                            << [DefaultStatus EXCEPT !.has_rel = TRUE,
                                                     !.rel = <<0, 0>>,
                                                     !.has_moved = <<"Exactly", 0>>],
                               [DefaultStatus EXCEPT !.has_rel = TRUE,
                                                     !.rel = <<-4, 0>>,
                                                     !.color = color,
                                                     !.rank = "R",
                                                     !.has_moved = <<"Exactly", 0>>] >>,
                         !.effect = << MoveEffect(Relative(-4, 0), Relative(-1, 0)) >>] >>

\* The ranks Piece::new accepts; any other character makes it panic.
Ranks == {"K", "Q", "B", "N", "R", "p"}

\* Piece::new dispatching on the rank: the template list of each factory
FactoryMoves(rank, color) ==
  CASE rank = "K" -> KingMoves(color)
    [] rank = "Q" -> QueenMoves(color)
    [] rank = "B" -> BishopMoves(color)
    [] rank = "N" -> KnightMoves(color)
    [] rank = "R" -> RookMoves(color)
    [] rank = "p" -> PawnMoves(color)

MoveTable == [rank \in Ranks |-> [color \in {White, Black} |-> FactoryMoves(rank, color)]]

\* Piece.moves: the template list the factory of the piece's rank built.
\* No operation changes the list of a piece, so it is a function of
\* (rank, color).
MovesOf(piece) == MoveTable[piece.rank][piece.color]

\* Piece::new for a rank in Ranks (history fields of a fresh piece)
NewPiece(color, rank) ==
  [rank |-> rank, color |-> color,
   is_crucial |-> (rank = "K"), can_promote |-> (rank = "p"),
   last_moved |-> NoTurn, times_moved |-> 0]

(***************************************************************************)
(* The game value and the template interpreter                             *)
(***************************************************************************)

\* Game::get_piece_at (called piece_at by the interpreter)
PieceAt(g, col, row) ==
  IF col > 7 \/ row > 7 THEN None ELSE g.board[U8(row * 8 + col)]

RECURSIVE IsSafePosition(_, _, _, _)

\* check_piece_status without the comparison of times_moved
check_piece_status_ignoring_has_moved(p, status, g) ==
  IF p # None
  THEN IF status.rank # "None"
       THEN /\ ~(status.rank # "0" /\ status.rank # p.rank)
            /\ ~(status.color # "Any" /\ status.color # p.color)
            /\ IF status.has_last /\ status.last_moved > 0
               THEN ~(p.last_moved = NoTurn \/ status.last_moved # p.last_moved)
               ELSE IF status.has_last /\ status.last_moved <= 0
                    THEN IF p.last_moved # NoTurn
                         THEN LET turn == g.turn_count + status.last_moved
                                          - (IF g.turn_owner = p.color \/ g.turn_owner = White
                                             THEN 1 ELSE 0)
                              IN  turn = p.last_moved
                         ELSE FALSE
                    ELSE TRUE
       ELSE FALSE
  ELSE status.rank = "None"

\* check_piece_status
CheckPieceStatus(p, status, g) ==
  IF p # None
  THEN IF status.rank # "None"
       THEN /\ ~(status.rank # "0" /\ status.rank # p.rank)
            /\ ~(status.color # "Any" /\ status.color # p.color)
            /\ IF status.has_last /\ status.last_moved > 0
               THEN ~(p.last_moved = NoTurn \/ status.last_moved # p.last_moved)
               ELSE IF status.has_last /\ status.last_moved <= 0
                    THEN IF p.last_moved # NoTurn
                         THEN LET turn == g.turn_count + status.last_moved
                                          - (IF g.turn_owner = p.color \/ g.turn_owner = White
                                             THEN 1 ELSE 0)
                              IN  turn = p.last_moved
                         ELSE FALSE
                    ELSE TRUE
            /\ CASE status.has_moved[1] = "None"     -> TRUE
                 [] status.has_moved[1] = "MoreThan" -> ~(p.times_moved <= status.has_moved[2])
                 [] status.has_moved[1] = "AtLeast"  -> ~(p.times_moved < status.has_moved[2])
                 [] status.has_moved[1] = "Exactly"  -> ~(p.times_moved # status.has_moved[2])
                 [] status.has_moved[1] = "AtMost"   -> ~(p.times_moved > status.has_moved[2])
                 [] status.has_moved[1] = "LessThan" -> ~(p.times_moved >= status.has_moved[2])
       ELSE FALSE
  ELSE status.rank = "None"

\* The body of check_conditions' loop for one condition
CheckCondition(g, pos, con, mirror) ==
  LET hor == mirror \in {"Horizontally", "VerAndHor"}
      ver == mirror \in {"Vertically", "VerAndHor"}
      cdf == IF hor THEN -1 ELSE 1
      cf  == IF hor THEN 1 ELSE 0
      rdf == IF ver THEN -1 ELSE 1
      rf  == IF ver THEN 1 ELSE 0
  IN  IF con.has_rel
      THEN LET col == U8(pos[1] + con.rel[1] * cdf)
               row == U8(pos[2] + con.rel[2] * rdf)
           IN  IF con.board_col # -1 /\ col # U8(8 * cf + con.board_col * cdf)
               THEN FALSE
               ELSE IF con.board_row # -1 /\ row # U8(8 * rf + con.board_row * rdf)
                    THEN FALSE
                    ELSE CheckPieceStatus(PieceAt(g, col, row), con, g)
      ELSE LET col == U8(8 * cf + con.board_col * cdf)
               row == U8(8 * rf + con.board_row * rdf)
           IN  CheckPieceStatus(PieceAt(g, col, row), con, g)

\* check_conditions looking at the unmirrored square under every mirror
check_conditions_unmirrored(g, pos, conditions, mirror) ==
  IF Len(conditions) = 0 THEN TRUE
  ELSE CheckCondition(g, pos, conditions[1], "None")

\* check_conditions: the loop returns from its first iteration, so only the
\* first condition of the list is ever evaluated.
check_conditions(g, pos, conditions, mirror) ==
  IF Len(conditions) = 0 THEN TRUE
  ELSE CheckCondition(g, pos, conditions[1], mirror)

RECURSIVE Slide(_, _, _, _, _, _, _, _, _, _, _)

\* One iteration i of prune_dir's loop and the iterations after it
Slide(i, p_col, p_row, d_col, d_row, min_s, max_s, can_capture, color, g, safe_throughout) ==
  IF i > max_s THEN {}
  ELSE LET col == p_col + i * d_col
           row == p_row + i * d_row
       IN  IF col < 0 \/ row < 0 \/ col >= 8 \/ row >= 8 THEN {}
           ELSE IF safe_throughout /\ ~IsSafePosition(g, col, row, color) THEN {}
           ELSE LET p == PieceAt(g, col, row)
                IN  IF p = None
                    THEN (IF i >= min_s THEN {col + row * 8} ELSE {})
                         \cup Slide(i + 1, p_col, p_row, d_col, d_row, min_s, max_s,
                                    can_capture, color, g, safe_throughout)
                    ELSE (IF ((can_capture /\ p.color # color) \/ i = 0) /\ i >= min_s
                          THEN {col + row * 8} ELSE {})
                         \cup (IF i > 0 THEN {}
                               ELSE Slide(i + 1, p_col, p_row, d_col, d_row, min_s, max_s,
                                          can_capture, color, g, safe_throughout))

\* prune_dir taking the mover for a piece of the other colour
prune_dir_other_color(p_col, p_row, d_col, d_row, min_s, max_s, can_capture, color, g, safe_throughout) ==
  Slide(0, p_col, p_row, d_col, d_row, min_s, max_s, can_capture, Enemy(color), g, safe_throughout)

\* prune_dir: the destinations (as board indices) along one ray
prune_dir(p_col, p_row, d_col, d_row, min_s, max_s, can_capture, color, g, safe_throughout) ==
  Slide(0, p_col, p_row, d_col, d_row, min_s, max_s, can_capture, color, g, safe_throughout)

\* The mirrors prune tries for a template: None always, the others as the
\* template's mirror allows
Mirrors == {"None", "Horizontally", "Vertically", "VerAndHor"}

MirrorApplies(m, mirror) ==
  CASE mirror = "None"         -> TRUE
    [] mirror = "Horizontally" -> m.mirror \in {"Horizontally", "VerAndHor"}
    [] mirror = "Vertically"   -> m.mirror \in {"Vertically", "VerAndHor"}
    [] mirror = "VerAndHor"    -> m.mirror = "VerAndHor"

\* The direction di as prune passes it to prune_dir under a mirror
MirroredDirection(di, mirror) ==
  << IF mirror \in {"Horizontally", "VerAndHor"} THEN -di[1] ELSE di[1],
     IF mirror \in {"Vertically", "VerAndHor"} THEN -di[2] ELSE di[2] >>

\* The destinations of one direction of a template under one mirror
PruneVariant(m, g, pos, di, mirror) ==
  LET max_s == IF m.maximum_slide = -1 THEN 8 ELSE m.maximum_slide
      d     == MirroredDirection(di, mirror)
  IN  IF MirrorApplies(m, mirror) /\ check_conditions(g, pos, m.requirements, mirror)
      THEN prune_dir(pos[1], pos[2], d[1], d[2], m.minimum_slide, max_s,
                     m.can_capture, m.color, g, m.safe_throughout)
      ELSE {}

\* The destinations of one direction of a template and of its mirror variants
PruneDirection(m, g, pos, di) ==
  UNION {PruneVariant(m, g, pos, di, mirror) : mirror \in Mirrors}

\* prune that skips where the origin is unsafe and never looks at the
\* requirements of the template
prune_ignoring_requirements(m, g, pos) ==
  IF m.safe_throughout /\ ~IsSafePosition(g, pos[1], pos[2], m.color)
  THEN {}
  ELSE UNION {PruneDirection([m EXCEPT !.requirements = <<>>], g, pos, m.directions[d]) :
                d \in DOMAIN m.directions}

\* Move::prune: the keys of the returned map; every key maps to m.effect
prune(m, g, pos) ==
  IF m.safe_throughout /\ IsSafePosition(g, pos[1], pos[2], m.color)
  THEN {}
  ELSE UNION {PruneDirection(m, g, pos, m.directions[d]) : d \in DOMAIN m.directions}

\* Does the effect list of a template hold a Capture
HasCaptureEffect(m) == \E e \in DOMAIN m.effect : m.effect[e].kind = "Capture"

\* The squares the Capture effects of a template add to a danger zone
CaptureSquares(m, col, row) ==
  {IF m.effect[e].p.rel
   THEN U8(U8(m.effect[e].p.x) + col + U8(U8(m.effect[e].p.y) + row) * 8)
   ELSE U8(m.effect[e].p.x + m.effect[e].p.y * 8) :
   e \in {e \in DOMAIN m.effect : m.effect[e].kind = "Capture"}}

\* Piece::get_danger_zone
get_danger_zone(piece, col, row, g) ==
  UNION {LET m == MovesOf(piece)[k]
         IN  IF ~m.can_capture /\ ~HasCaptureEffect(m) THEN {}
             ELSE LET batch == prune(m, g, <<col, row>>)
                  IN  IF batch = {} THEN {}
                      ELSE (IF m.can_capture THEN batch ELSE {})
                           \cup CaptureSquares(m, col, row) :
         k \in DOMAIN MovesOf(piece)}

\* is_safe_position indexing the square as row + col * 8
is_safe_position_transposed(g, col, row, color) ==
  IF color # g.turn_owner THEN TRUE
  ELSE \A i \in Squares :
         LET piece == PieceAt(g, i % 8, i \div 8)
         IN  piece # None /\ piece.color # color
               => U8(row + col * 8) \notin get_danger_zone(piece, i % 8, i \div 8, g)

\* Game::is_safe_position
IsSafePosition(g, col, row, color) ==
  IF color # g.turn_owner THEN TRUE
  ELSE \A i \in Squares :
         LET piece == PieceAt(g, i % 8, i \div 8)
         IN  piece # None /\ piece.color # color
               => U8(col + row * 8) \notin get_danger_zone(piece, i % 8, i \div 8, g)

(***************************************************************************)
(* Move application and the king-safety filter                             *)
(***************************************************************************)

\* The far rank of a colour, as just_move tests it
FarRank(color) == IF color = White THEN 7 ELSE 0

\* just_move stamping last_moved only on a piece's first move
just_move_first_stamp(g, from, to) ==
  LET piece  == g.board[U8(from[1] + from[2] * 8)]
      piece2 == [piece EXCEPT !.last_moved = IF piece.last_moved = NoTurn
                                             THEN g.turn_count ELSE piece.last_moved,
                              !.times_moved = piece.times_moved + 1]
      state  == IF piece2.can_promote /\ to[2] = FarRank(piece2.color)
                THEN "Promote" ELSE g.game_state
      placed == [g.board EXCEPT ![U8(to[1] + to[2] * 8)] = piece2]
  IN  [g EXCEPT !.game_state = state,
                !.board = [placed EXCEPT ![U8(from[1] + from[2] * 8)] = None]]

\* Game::just_move
just_move(g, from, to) ==
  LET piece  == g.board[U8(from[1] + from[2] * 8)]
      piece2 == [piece EXCEPT !.last_moved = g.turn_count,
                              !.times_moved = piece.times_moved + 1]
      state  == IF piece2.can_promote /\ to[2] = FarRank(piece2.color)
                THEN "Promote" ELSE g.game_state
      placed == [g.board EXCEPT ![U8(to[1] + to[2] * 8)] = piece2]
  IN  [g EXCEPT !.game_state = state,
                !.board = [placed EXCEPT ![U8(from[1] + from[2] * 8)] = None]]

\* Game::capture
capture(g, pos) ==
  [g EXCEPT !.board = [g.board EXCEPT ![U8(pos[1] + pos[2] * 8)] = None]]

RECURSIVE ApplyEffects(_, _, _, _)

\* The loop of just_execute_move over effects[k..]
ApplyEffects(g, from, effects, k) ==
  IF k > Len(effects) THEN g
  ELSE LET e == effects[k]
           g2 == IF e.kind = "Capture"
                 THEN capture(g, position(e.p, from))
                 ELSE just_move(g, position(e.p, from), position(e.p2, from))
       IN  ApplyEffects(g2, from, effects, k + 1)

\* Game::just_execute_move
just_execute_move(g, from, to, effects) ==
  ApplyEffects(just_move(g, from, to), from, effects, 1)

\* is_safe_move looking at the game as it is, without simulating the move
is_safe_move_unsimulated(g, from, to, effects, color) ==
  \A i \in Squares :
    LET piece == g.board[i]
    IN  ~(piece # None /\ piece.is_crucial /\ piece.color = color
          /\ ~IsSafePosition(g, i % 8, i \div 8, color))

\* Game::is_safe_move
is_safe_move(g, from, to, effects, color) ==
  LET gc == just_execute_move(g, from, to, effects)
  IN  \A i \in Squares :
        LET piece == gc.board[i]
        IN  ~(piece # None /\ piece.is_crucial /\ piece.color = color
              /\ ~IsSafePosition(gc, i % 8, i \div 8, color))

\* The empty HashMap
EmptyMap == [key \in {} |-> <<>>]

RECURSIVE MovesUpTo(_, _, _, _, _)

\* The map `all` of all_possible_moves after the first k templates:
\* every safe entry of a batch is inserted, replacing an earlier one
MovesUpTo(piece, col, row, g, k) ==
  IF k = 0 THEN EmptyMap
  ELSE LET prev  == MovesUpTo(piece, col, row, g, k - 1)
           m     == MovesOf(piece)[k]
           batch == prune(m, g, <<col, row>>)
           safe  == {key \in batch :
                       is_safe_move(g, <<col, row>>, <<key % 8, key \div 8>>,
                                    m.effect, piece.color)}
       IN  [key \in (DOMAIN prev) \cup safe |->
              IF key \in safe THEN m.effect ELSE prev[key]]

\* Piece::all_possible_moves (called get_all_possible_moves by the driver)
all_possible_moves(piece, col, row, g) ==
  MovesUpTo(piece, col, row, g, Len(MovesOf(piece)))

\* Game::get_moves for an occupied square
get_moves(g, col, row) ==
  all_possible_moves(PieceAt(g, col, row), col, row, g)

\* Game::has_moves
has_moves(g) ==
  \E i \in Squares :
    /\ PieceAt(g, i % 8, i \div 8) # None
    /\ PieceAt(g, i % 8, i \div 8).color = g.turn_owner
    /\ DOMAIN get_moves(g, i % 8, i \div 8) # {}

\* in_check looking at every piece of the turn owner, crucial or not
in_check_any_piece(g) ==
  \E i \in Squares :
    LET p == PieceAt(g, i % 8, i \div 8)
    IN  /\ p # None
        /\ p.color = g.turn_owner
        /\ ~IsSafePosition(g, i % 8, i \div 8, p.color)

\* Game::in_check
in_check(g) ==
  \E i \in Squares :
    LET p == PieceAt(g, i % 8, i \div 8)
    IN  /\ p # None
        /\ p.is_crucial
        /\ p.color = g.turn_owner
        /\ ~IsSafePosition(g, i % 8, i \div 8, p.color)

\* increment_turn counting a turn after every move, White's too
increment_turn_every_ply(g) ==
  LET g1 == [g EXCEPT !.turn_owner = IF g.turn_owner = White THEN Black ELSE White,
                      !.turn_count = g.turn_count + 1]
      g2 == [g1 EXCEPT !.game_state = IF in_check(g1) THEN "Check" ELSE "Running"]
  IN  IF ~has_moves(g2)
      THEN [g2 EXCEPT !.game_state = IF g2.game_state = "Check"
                                     THEN "CheckMate" ELSE "Stalemate"]
      ELSE g2

\* increment_turn calling every position without a move a checkmate
increment_turn_always_mate(g) ==
  LET g1 == IF g.turn_owner = White
            THEN [g EXCEPT !.turn_owner = Black]
            ELSE [g EXCEPT !.turn_owner = White, !.turn_count = g.turn_count + 1]
      g2 == [g1 EXCEPT !.game_state = IF in_check(g1) THEN "Check" ELSE "Running"]
  IN  IF ~has_moves(g2)
      THEN [g2 EXCEPT !.game_state = "CheckMate"]
      ELSE g2

\* Game::increment_turn
increment_turn(g) ==
  LET g1 == IF g.turn_owner = White
            THEN [g EXCEPT !.turn_owner = Black]
            ELSE [g EXCEPT !.turn_owner = White, !.turn_count = g.turn_count + 1]
      g2 == [g1 EXCEPT !.game_state = IF in_check(g1) THEN "Check" ELSE "Running"]
  IN  IF ~has_moves(g2)
      THEN [g2 EXCEPT !.game_state = IF g2.game_state = "Check"
                                     THEN "CheckMate" ELSE "Stalemate"]
      ELSE g2

\* Game::get_promotion: the square of the piece it returns, as a set
\* (empty for the result None)
get_promotion(g) ==
  IF g.game_state # "Promote" THEN {}
  ELSE LET whites == {col \in 0 .. 7 : /\ PieceAt(g, col, 7) # None
                                       /\ PieceAt(g, col, 7).can_promote
                                       /\ PieceAt(g, col, 7).color = White}
           blacks == {col \in 0 .. 7 : /\ PieceAt(g, col, 0) # None
                                       /\ PieceAt(g, col, 0).can_promote
                                       /\ PieceAt(g, col, 0).color = Black}
           Min(S) == CHOOSE x \in S : \A y \in S : x <= y
       IN  IF whites # {} THEN {<<Min(whites), 7>>}
           ELSE IF blacks # {} THEN {<<Min(blacks), 0>>}
           ELSE {}

(***************************************************************************)
(* The public operations                                                   *)
(***************************************************************************)

\* Does the u8 expression to.0 + to.1 * 8 overflow
Overflows(to) == to[2] * 8 > 255 \/ to[1] + U8(to[2] * 8) > 255

\* make_move passing the turn on although the target was not among the moves
make_move_flips_on_reject(g, from, to, checked) ==
  IF g.game_state \notin {"Running", "Check"} THEN [game |-> g, ret |-> "false"]
  ELSE LET piece == PieceAt(g, from[1], from[2])
       IN  IF piece = None THEN [game |-> g, ret |-> "false"]
           ELSE IF g.turn_owner # piece.color THEN [game |-> g, ret |-> "false"]
           ELSE LET moves == all_possible_moves(piece, from[1], from[2], g)
                    key   == U8(to[1] + U8(to[2] * 8))
                IN  IF Overflows(to) /\ checked THEN [game |-> g, ret |-> "panic"]
                    ELSE IF key \in DOMAIN moves
                    THEN LET g2 == just_execute_move(g, from, to, moves[key])
                         IN  [game |-> IF g2.game_state # "Promote"
                                       THEN increment_turn(g2) ELSE g2,
                              ret |-> "true"]
                    ELSE [game |-> increment_turn(g), ret |-> "false"]

\* make_move answering true when the game state forbids moving
make_move_true_when_closed(g, from, to, checked) ==
  IF g.game_state \notin {"Running", "Check"} THEN [game |-> g, ret |-> "true"]
  ELSE LET piece == PieceAt(g, from[1], from[2])
       IN  IF piece = None THEN [game |-> g, ret |-> "false"]
           ELSE IF g.turn_owner # piece.color THEN [game |-> g, ret |-> "false"]
           ELSE LET moves == all_possible_moves(piece, from[1], from[2], g)
                    key   == U8(to[1] + U8(to[2] * 8))
                IN  IF Overflows(to) /\ checked THEN [game |-> g, ret |-> "panic"]
                    ELSE IF key \in DOMAIN moves
                    THEN LET g2 == just_execute_move(g, from, to, moves[key])
                         IN  [game |-> IF g2.game_state # "Promote"
                                       THEN increment_turn(g2) ELSE g2,
                              ret |-> "true"]
                    ELSE [game |-> g, ret |-> "false"]

\* Game::make_move; `checked` tells whether the build traps integer
\* make_move passing the turn on while a promotion is pending
make_move_passing_turn_on_promotion(g, from, to, checked) ==
  IF g.game_state \notin {"Running", "Check"} THEN [game |-> g, ret |-> "false"]
  ELSE LET piece == PieceAt(g, from[1], from[2])
       IN  IF piece = None THEN [game |-> g, ret |-> "false"]
           ELSE IF g.turn_owner # piece.color THEN [game |-> g, ret |-> "false"]
           ELSE LET moves == all_possible_moves(piece, from[1], from[2], g)
                    key   == U8(to[1] + U8(to[2] * 8))
                IN  IF Overflows(to) /\ checked THEN [game |-> g, ret |-> "panic"]
                    ELSE IF key \in DOMAIN moves
                    THEN LET g2 == just_execute_move(g, from, to, moves[key])
                         IN  [game |-> increment_turn(g2),
                              ret |-> "true"]
                    ELSE [game |-> g, ret |-> "false"]

\* overflow (it then panics) or wraps
make_move(g, from, to, checked) ==
  IF g.game_state \notin {"Running", "Check"} THEN [game |-> g, ret |-> "false"]
  ELSE LET piece == PieceAt(g, from[1], from[2])
       IN  IF piece = None THEN [game |-> g, ret |-> "false"]
           ELSE IF g.turn_owner # piece.color THEN [game |-> g, ret |-> "false"]
           ELSE LET moves == all_possible_moves(piece, from[1], from[2], g)
                    key   == U8(to[1] + U8(to[2] * 8))
                IN  IF Overflows(to) /\ checked THEN [game |-> g, ret |-> "panic"]
                    ELSE IF key \in DOMAIN moves
                    THEN LET g2 == just_execute_move(g, from, to, moves[key])
                         IN  [game |-> IF g2.game_state # "Promote"
                                       THEN increment_turn(g2) ELSE g2,
                              ret |-> "true"]
                    ELSE [game |-> g, ret |-> "false"]

\* promote placing a fresh piece, without the history of the pawn
promote_fresh_piece(g, pos, rank) ==
  IF g.game_state # "Promote" THEN [game |-> g, ret |-> "false"]
  ELSE LET p == PieceAt(g, pos[1], pos[2])
       IN  IF p = None THEN [game |-> g, ret |-> "false"]
           ELSE IF ~p.can_promote \/ p.rank = rank THEN [game |-> g, ret |-> "false"]
           ELSE IF ~(p.color = White /\ pos[2] = 7) /\ ~(p.color = Black /\ pos[2] = 0)
                THEN [game |-> g, ret |-> "false"]
           ELSE IF rank \notin Ranks THEN [game |-> g, ret |-> "panic"]
           ELSE LET template_piece == NewPiece(p.color, rank)
                IN  IF template_piece.is_crucial \/ template_piece.can_promote
                    THEN [game |-> g, ret |-> "false"]
                    ELSE LET g2 == [g EXCEPT !.board[U8(pos[1] + pos[2] * 8)] = template_piece]
                         IN  [game |-> IF get_promotion(g2) = {}
                                       THEN increment_turn([g2 EXCEPT !.game_state = "Running"])
                                       ELSE g2,
                              ret |-> "true"]

\* Game::promote
promote(g, pos, rank) ==
  IF g.game_state # "Promote" THEN [game |-> g, ret |-> "false"]
  ELSE LET p == PieceAt(g, pos[1], pos[2])
       IN  IF p = None THEN [game |-> g, ret |-> "false"]
           ELSE IF ~p.can_promote \/ p.rank = rank THEN [game |-> g, ret |-> "false"]
           ELSE IF ~(p.color = White /\ pos[2] = 7) /\ ~(p.color = Black /\ pos[2] = 0)
                THEN [game |-> g, ret |-> "false"]
           ELSE IF rank \notin Ranks THEN [game |-> g, ret |-> "panic"]
           ELSE LET template_piece == NewPiece(p.color, rank)
                IN  IF template_piece.is_crucial \/ template_piece.can_promote
                    THEN [game |-> g, ret |-> "false"]
                    ELSE LET promoted_piece ==
                               [template_piece EXCEPT !.last_moved = p.last_moved,
                                                      !.times_moved = p.times_moved]
                             g2 == [g EXCEPT !.board[U8(pos[1] + pos[2] * 8)] = promoted_piece]
                         IN  [game |-> IF get_promotion(g2) = {}
                                       THEN increment_turn([g2 EXCEPT !.game_state = "Running"])
                                       ELSE g2,
                              ret |-> "true"]

(***************************************************************************)
(* The state machine                                                       *)
(***************************************************************************)

\* The Game value held in the variables
game ==
  [board |-> board, turn_owner |-> turn_owner,
   turn_count |-> turn_count, game_state |-> game_state]

\* The template of Game::new, row 0 first, and its white_map 0xFFFF
NewTemplate ==
  << "R", "N", "B", "Q", "K", "B", "N", "R",
     "p", "p", "p", "p", "p", "p", "p", "p",
     "0", "0", "0", "0", "0", "0", "0", "0",
     "0", "0", "0", "0", "0", "0", "0", "0",
     "0", "0", "0", "0", "0", "0", "0", "0",
     "0", "0", "0", "0", "0", "0", "0", "0",
     "p", "p", "p", "p", "p", "p", "p", "p",
     "R", "N", "B", "Q", "K", "B", "N", "R" >>

\* The board make_board starts from: every cell None
EmptyBoard == [i \in Squares |-> None]

\* Game::make_board. white_map is given as the set of its 1-bits. The loop
\* calls Piece::new for every character but '0', which panics on a character
\* that names no rank, before the test for the crucial pieces is reached.
make_board(template, white_squares) ==
  LET color(i) == IF i \in white_squares THEN White ELSE Black
      filled   == [i \in Squares |->
                     IF template[i + 1] = "0" THEN None
                     ELSE NewPiece(color(i), template[i + 1])]
      crucial(c) == \E i \in Squares : filled[i] # None /\ filled[i].is_crucial
                                         /\ filled[i].color = c
  IN  IF \E i \in Squares : template[i + 1] \notin Ranks \cup {"0"}
      THEN [kind |-> "panic", board |-> EmptyBoard]
      ELSE IF ~crucial(White) \/ ~crucial(Black)
      THEN [kind |-> "err", board |-> EmptyBoard]
      ELSE [kind |-> "ok", board |-> filled]

\* Game::new
NewGame ==
  [board |-> make_board(NewTemplate, 0 .. 15).board, turn_owner |-> White,
   turn_count |-> 1, game_state |-> "Running"]

\* A caller's move as a pair of squares
Mv(c1, r1, c2, r2) == << <<c1, r1>>, <<c2, r2>> >>

\* How many moves past the next one of its line a caller tries
Lookahead == 2

\* How many moves before the next one of its line a caller tries again
Lookbehind == 0

\* Fool's mate: 1. f3 e5 2. g4 Qh4#
MateLine ==
  << Mv(5, 1, 5, 2), Mv(4, 6, 4, 4), Mv(6, 1, 6, 3), Mv(3, 7, 7, 3) >>

\* Loyd's stalemate: 1. e3 a5 2. Qh5 Ra6 3. Qxa5 h5 4. h4 Rah6 5. Qxc7 f6
\* 6. Qxd7+ Kf7 7. Qxb7 Qd3 8. Qxb8 Qh7 9. Qxc8 Kg6 10. Qe6
StalemateLine ==
  << Mv(4, 1, 4, 2), Mv(0, 6, 0, 4), Mv(3, 0, 7, 4), Mv(0, 7, 0, 5),
     Mv(7, 4, 0, 4), Mv(7, 6, 7, 4), Mv(7, 1, 7, 3), Mv(0, 5, 7, 5),
     Mv(0, 4, 2, 6), Mv(5, 6, 5, 5), Mv(2, 6, 3, 6), Mv(4, 7, 5, 6),
     Mv(3, 6, 1, 6), Mv(3, 7, 3, 2), Mv(1, 6, 1, 7), Mv(3, 2, 7, 6),
     Mv(1, 7, 2, 7), Mv(5, 6, 6, 5), Mv(2, 7, 4, 5) >>

\* A king captured en passant: 1. e4 f6 2. e5 Kf7 3. a3 Kg6 4. a4 Kf5 5. a5 d5
\* 6. exd6 (towards the lower file)
EnPassantLine ==
  << Mv(4, 1, 4, 3), Mv(5, 6, 5, 5), Mv(4, 3, 4, 4), Mv(4, 7, 5, 6),
     Mv(0, 1, 0, 2), Mv(5, 6, 6, 5), Mv(0, 2, 0, 3), Mv(6, 5, 5, 4),
     Mv(0, 3, 0, 4), Mv(3, 6, 3, 4), Mv(4, 4, 3, 5) >>

\* Two pawns racing to their far ranks: 1. a4 b5 2. axb5 a6 3. bxa6 Bb7
\* 4. axb7 Nc6 5. g4 h5 6. b8 hxg4 7. h3 gxh3 8. Bg2 hxg2 9. Nf3 g1, the step
\* to b8 called with the target (9, 6)
PromotionLine ==
  << Mv(0, 1, 0, 3), Mv(1, 6, 1, 4), Mv(0, 3, 1, 4), Mv(0, 6, 0, 5),
     Mv(1, 4, 0, 5), Mv(2, 7, 1, 6), Mv(0, 5, 1, 6), Mv(1, 7, 2, 5),
     Mv(6, 1, 6, 3), Mv(7, 6, 7, 4), Mv(1, 6, 9, 6), Mv(7, 4, 6, 3),
     Mv(7, 1, 7, 2), Mv(6, 3, 7, 2), Mv(5, 0, 6, 1), Mv(7, 2, 6, 1),
     Mv(6, 0, 5, 2), Mv(6, 1, 6, 0) >>

\* White made ready to castle, Black taking its own pawn "en passant":
\* 1. e4 a5 2. Nf3 b5 3. Be2 a5xb4
CastleLine ==
  << Mv(4, 1, 4, 3), Mv(0, 6, 0, 4), Mv(6, 0, 5, 2), Mv(1, 6, 1, 4),
     Mv(5, 0, 4, 1), Mv(0, 4, 1, 3) >>

Scripts == {"mate", "stalemate", "enpassant", "promotion", "castle"}

ScriptLine(s) ==
  CASE s = "mate" -> MateLine
    [] s = "stalemate" -> StalemateLine
    [] s = "enpassant" -> EnPassantLine
    [] s = "promotion" -> PromotionLine
    [] s = "castle" -> CastleLine

\* Moves a caller of the script tries at every point of its line: the two
\* regular promotions of the b-pawn, and the closing move of a line that
\* ends the game (so that it is tried again once the game is over), and
\* White's castling to the king's side
ScriptProbes(s) ==
  CASE s = "promotion" -> { Mv(1, 6, 1, 7), Mv(1, 6, 0, 7) }
    [] s = "mate" -> { Mv(3, 7, 7, 3) }
    [] s = "stalemate" -> { Mv(2, 7, 4, 5) }
    [] s = "castle" -> { Mv(4, 0, 6, 0) }
    [] OTHER -> {}

ScriptPromotions(s) ==
  CASE s = "promotion" -> { <<<<1, 7>>, "Q">>, <<<<0, 7>>, "N">>, <<<<6, 0>>, "R">>,
                            <<<<1, 7>>, "K">>, <<<<1, 7>>, "p">>, <<<<1, 7>>, "X">>,
                            <<<<1, 6>>, "Q">>, <<<<3, 7>>, "B">>, <<<<8, 7>>, "Q">> }
    [] OTHER -> { <<<<0, 7>>, "Q">> }

\* The moves the caller tries after n successful moves
ScriptMoves(s, n) ==
  {ScriptLine(s)[k] : k \in {k \in DOMAIN ScriptLine(s) :
                               n + 1 - Lookbehind <= k /\ k <= n + 1 + Lookahead}}
  \cup ScriptProbes(s)

NoCall == [op |-> "new", from |-> <<0, 0>>, to |-> <<0, 0>>, rank |-> "-"]

Init ==
  /\ board = NewGame.board
  /\ turn_owner = NewGame.turn_owner
  /\ turn_count = NewGame.turn_count
  /\ game_state = NewGame.game_state
  /\ ret = "none"
  /\ call = NoCall
  /\ script \in Scripts
  /\ ply = 0

\* The variables after a call that returned r
Returned(r, c) ==
  /\ board' = r.game.board
  /\ turn_owner' = r.game.turn_owner
  /\ turn_count' = r.game.turn_count
  /\ game_state' = r.game.game_state
  /\ ret' = r.ret
  /\ call' = IF r.ret = "true" THEN c ELSE [NoCall EXCEPT !.op = c.op]
  /\ ply' = IF r.ret = "true" /\ c.op = "make_move" THEN ply + 1 ELSE ply
  /\ UNCHANGED script

\* A caller calls make_move(from, to)
MakeMove ==
  /\ ret # "panic"
  /\ \E m \in ScriptMoves(script, ply) :
       \E checked \in IF Overflows(m[2]) THEN BOOLEAN ELSE {TRUE} :
         Returned(make_move(game, m[1], m[2], checked),
                  [op |-> "make_move", from |-> m[1], to |-> m[2], rank |-> "-"])

\* A caller calls promote(pos, rank)
Promote ==
  /\ ret # "panic"
  /\ \E pr \in ScriptPromotions(script) :
       Returned(promote(game, pr[1], pr[2]),
                [op |-> "promote", from |-> pr[1], to |-> pr[1], rank |-> pr[2]])

Next == MakeMove \/ Promote

Spec == Init /\ [][Next]_vars

\* Is a coordinate pair on the board
OnBoard(pos) == pos[1] \in 0 .. 7 /\ pos[2] \in 0 .. 7

\* A caller calls make_move(from, to) with squares of the board
MakeMoveOnBoard ==
  /\ ret # "panic"
  /\ \E m \in ScriptMoves(script, ply) :
       /\ OnBoard(m[1])
       /\ OnBoard(m[2])
       /\ Returned(make_move(game, m[1], m[2], TRUE),
                   [op |-> "make_move", from |-> m[1], to |-> m[2], rank |-> "-"])

\* A caller calls promote(pos, rank) with a square of the board
PromoteOnBoard ==
  /\ ret # "panic"
  /\ \E pr \in ScriptPromotions(script) :
       /\ OnBoard(pr[1])
       /\ Returned(promote(game, pr[1], pr[2]),
                   [op |-> "promote", from |-> pr[1], to |-> pr[1], rank |-> pr[2]])

OnBoardNext == MakeMoveOnBoard \/ PromoteOnBoard

\* The games of callers that name squares of the board only
OnBoardSpec == Init /\ [][OnBoardNext]_vars

(***************************************************************************)
(* Boards set up by make_board                                             *)
(***************************************************************************)

\* The squares whose character the caller of make_board varies: d4, d5, d6
FreeSquares == <<27, 35, 43>>

\* The characters tried on them; "X" names no rank
FreeChars == {"0", "Q", "R", "B", "N", "p", "X"}

\* A template with the kings' squares e1 and e8 holding k1 and k8, a pawn on
\* b2 and on f6, and the free squares holding the characters of fill
BoardTemplate(k1, k8, fill) ==
  [i \in 1 .. 64 |->
     CASE i - 1 = 4  -> k1
       [] i - 1 = 60 -> k8
       [] i - 1 = 9  -> "p"
       [] i - 1 = 45 -> "p"
       [] \E f \in DOMAIN FreeSquares : FreeSquares[f] = i - 1 ->
            fill[CHOOSE f \in DOMAIN FreeSquares : FreeSquares[f] = i - 1]
       [] OTHER -> "0"]

\* The templates and white maps a caller passes to make_board
BoardInputs ==
  {[op |-> "make_board", template |-> BoardTemplate("K", k8, fill),
    white_map |-> {9} \cup w] :
     k8 \in {"K", "0"},
     fill \in [DOMAIN FreeSquares -> FreeChars],
     w \in SUBSET {4, 27, 35, 43}}

\* A caller is about to build a board
BoardInit ==
  /\ board = EmptyBoard
  /\ turn_owner = White
  /\ turn_count = 1
  /\ game_state = "Running"
  /\ ret = "none"
  /\ call \in BoardInputs
  /\ script = "board"
  /\ ply = 0

\* The caller calls make_board(template, white_map) and keeps the board of
\* an Ok result
BuildBoard ==
  /\ ret = "none"
  /\ call.op = "make_board"
  /\ LET r == make_board(call.template, call.white_map)
     IN  /\ ret' = r.kind
         /\ board' = r.board
  /\ UNCHANGED <<turn_owner, turn_count, game_state, call, script, ply>>

\* A caller asks a template of a piece of the built board for its
\* destinations: Move::prune(game, pos), kept in the call record
PruneTemplate ==
  /\ ret = "ok"
  /\ call.op = "make_board"
  /\ \E i \in Squares :
       /\ board[i] # None
       /\ \E k \in DOMAIN MovesOf(board[i]) :
            call' = [op |-> "prune", from |-> i, move |-> k,
                     moves |-> prune(MovesOf(board[i])[k], game, <<i % 8, i \div 8>>)]
  /\ UNCHANGED <<board, turn_owner, turn_count, game_state, ret, script, ply>>

BoardNext == BuildBoard \/ PruneTemplate

BoardSpec == BoardInit /\ [][BoardNext]_vars

(***************************************************************************)
(* Properties                                                              *)
(***************************************************************************)

\* The board index board[pos.0 + pos.1 * 8] a call's square names
Idx(pos) == U8(pos[1] + U8(pos[2] * 8))

\* The Game value of the next state
gameNext ==
  [board |-> board', turn_owner |-> turn_owner',
   turn_count |-> turn_count', game_state |-> game_state']

\* Some enemy piece has the square in its danger zone
Attacked(g, sq, color) ==
  \E i \in Squares :
    /\ g.board[i] # None
    /\ g.board[i].color # color
    /\ sq \in get_danger_zone(g.board[i], i % 8, i \div 8, g)

\* The squares holding a crucial piece of a colour
CrucialSquares(g, color) ==
  {i \in Squares : g.board[i] # None /\ g.board[i].is_crucial /\ g.board[i].color = color}

\* The squares holding a promotable piece on its far rank
Pending(b) ==
  {i \in Squares : b[i] # None /\ b[i].can_promote /\ (i \div 8) = FarRank(b[i].color)}

\* The call left the Game value as it was
GameUnchanged == UNCHANGED <<board, turn_owner, turn_count, game_state>>

\* C1: in every reachable state the board holds at least one crucial piece
\* (king) of each colour.
C1_BothKingsOnBoard ==
  \A color \in {White, Black} : CrucialSquares(game, color) # {}

\* C2: whenever make_move returns false, the board, turn_owner, turn_count
\* and game_state are what they were before the call.
C2_RejectedMoveChangesNothing ==
  [][(((call').op = "make_move" /\ ret' = "false")
       => GameUnchanged)]_vars

\* A make_move that returned false while moves were being accepted
C2_Witness ==
  /\ call.op = "make_move"
  /\ ret = "false"
  /\ game_state \in {"Running", "Check"}
  /\ ply > 0

\* C3: every entry get_moves returns for a piece leaves, once applied with
\* its effects, every crucial piece of the mover's colour on a square for
\* which is_safe_position returns true: for a piece of the turn owner (the
\* pieces make_move accepts) that is a square in no enemy danger zone.
C3_MovesLeaveKingSafe ==
  \A i \in Squares :
    board[i] # None =>
      LET moves == get_moves(game, i % 8, i \div 8)
      IN  \A key \in DOMAIN moves :
            LET after == just_execute_move(game, <<i % 8, i \div 8>>,
                                           <<key % 8, key \div 8>>, moves[key])
            IN  \A k \in CrucialSquares(after, board[i].color) :
                  IF board[i].color = after.turn_owner
                  THEN ~Attacked(after, k, board[i].color)
                  ELSE IsSafePosition(after, k % 8, k \div 8, board[i].color)

\* The turn owner is in check and a destination some template offers to one
\* of its pieces is withheld by get_moves
C3_Witness ==
  /\ game_state = "Check"
  /\ \E i \in Squares :
       /\ board[i] # None
       /\ board[i].color = turn_owner
       /\ \E k \in DOMAIN MovesOf(board[i]) :
            ~(prune(MovesOf(board[i])[k], game, <<i % 8, i \div 8>>)
                \subseteq DOMAIN get_moves(game, i % 8, i \div 8))

\* C4: after a make_move that returns true and leaves a state other than
\* Promote, turn_owner is the opposite colour, and turn_count has grown by
\* exactly 1 if the mover was Black and is unchanged if the mover was White;
\* turn_count is always at least 1.
C4_TurnFlipsAndCounts ==
  /\ [](turn_count >= 1)
  /\ [][(((call').op = "make_move" /\ ret' = "true" /\ game_state' # "Promote")
          => /\ turn_owner' = Enemy(turn_owner)
             /\ turn_count' = turn_count + (IF turn_owner = Black THEN 1 ELSE 0))]_vars

\* Black has just completed a move and the second turn has begun
C4_Witness ==
  /\ call.op = "make_move"
  /\ ret = "true"
  /\ game_state # "Promote"
  /\ turn_owner = White
  /\ turn_count = 2

\* The piece p as it is after being displaced in turn number t
Displaced(p, t) == [p EXCEPT !.last_moved = t, !.times_moved = p.times_moved + 1]

C6_TerminalStatesAreClassified ==
  LET NoLegalMove ==
        \A i \in Squares :
          (board[i] # None /\ board[i].color = turn_owner)
            => DOMAIN get_moves(game, i % 8, i \div 8) = {}
      KingAttacked ==
        \E k \in CrucialSquares(game, turn_owner) : Attacked(game, k, turn_owner)
  IN  /\ game_state = "CheckMate" => (NoLegalMove /\ KingAttacked)
      /\ game_state = "Stalemate" => (NoLegalMove /\ ~KingAttacked)

\* The game has ended in stalemate
C6_Witness ==
  /\ game_state = "Stalemate"
  /\ CrucialSquares(game, turn_owner) # {}

\* C7: once game_state is CheckMate or Stalemate, every make_move and promote
\* call returns false and board, turn_owner, turn_count and game_state never
\* change again.
C7_TerminalStatesAbsorb ==
  [][(game_state \in {"CheckMate", "Stalemate"}
       => /\ ret' = "false"
          /\ GameUnchanged)]_vars

\* A call was made, and refused, after checkmate
C7_Witness ==
  /\ game_state = "CheckMate"
  /\ ret = "false"
  /\ call.op = "make_move"

\* C8: when a successful make_move lands a can_promote piece on its far rank,
\* game_state becomes Promote and turn_owner and turn_count are not changed;
\* while game_state is Promote every make_move returns false.
C8_FarRankGatesOnPromote ==
  [][( /\ ((call').op = "make_move" /\ ret' = "true" /\ Idx((call').to) \in Pending(board'))
          => /\ game_state' = "Promote"
             /\ turn_owner' = turn_owner
             /\ turn_count' = turn_count
       /\ (game_state = "Promote" /\ (call').op = "make_move") => ret' = "false" )]_vars

\* The conditions under which C9 says promote(pos, rank) succeeds
PromoteLegal(g, pos, rank) ==
  /\ g.game_state = "Promote"
  /\ PieceAt(g, pos[1], pos[2]) # None
  /\ PieceAt(g, pos[1], pos[2]).can_promote
  /\ pos[2] = FarRank(PieceAt(g, pos[1], pos[2]).color)
  /\ rank # "K"
  /\ rank # "p"
  /\ rank # PieceAt(g, pos[1], pos[2]).rank

\* C9: promote(pos, rank) returns true and replaces the piece at pos iff
\* game_state is Promote, the occupant of pos can promote and stands on its
\* far rank, the rank is neither crucial nor promotable and differs from the
\* occupant's; in every other case it returns false and changes nothing.
C9_PromoteIffLegal ==
  /\ call.op = "promote" => ret \in {"true", "false"}
  /\ \A pr \in ScriptPromotions(script) :
       LET r == promote(game, pr[1], pr[2])
       IN  IF PromoteLegal(game, pr[1], pr[2])
           THEN /\ r.ret = "true"
                /\ r.game.board[Idx(pr[1])].rank = pr[2]
           ELSE /\ r.ret = "false"
                /\ r.game = game

\* The game_state increment_turn computes for a game whose turn has flipped
Classified(g) ==
  IF \E k \in CrucialSquares(g, g.turn_owner) : Attacked(g, k, g.turn_owner)
  THEN IF has_moves(g) THEN "Check" ELSE "CheckMate"
  ELSE IF has_moves(g) THEN "Running" ELSE "Stalemate"

TemplateHasKing(template, white_map, color) ==
  \E i \in Squares : template[i + 1] = "K" /\ ((i \in white_map) <=> (color = White))

\* C11: make_board returns an error result whenever the template lacks a
\* crucial piece for White or for Black and whenever it holds a character
\* that is neither '0' nor a rank; for every other template and white map it
\* returns a board on which square i holds the templated rank, White iff bit
\* i of the white map is set.
C11_MakeBoardErrOrBoard ==
  (call.op = "make_board" /\ ret # "none") =>
    LET t   == call.template
        w   == call.white_map
        bad == \/ ~TemplateHasKing(t, w, White)
               \/ ~TemplateHasKing(t, w, Black)
               \/ \E i \in Squares : t[i + 1] \notin Ranks \cup {"0"}
    IN  IF bad THEN ret = "err"
        ELSE /\ ret = "ok"
             /\ \A i \in Squares :
                  IF t[i + 1] = "0" THEN board[i] = None
                  ELSE /\ board[i] # None
                       /\ board[i].rank = t[i + 1]
                       /\ (board[i].color = White) <=> (i \in w)

\* The same statement for the templates that hold no unknown character
C11_KnownCharacters ==
  (call.op = "make_board" /\ ret # "none"
   /\ \A i \in Squares : call.template[i + 1] \in Ranks \cup {"0"}) =>
     C11_MakeBoardErrOrBoard

\* The corner offset of the rook and the step of the king for a castling
\* side: 1 towards the higher files (rook at (3,0)), -1 towards the lower
\* files (rook at (-4,0))
RookOffset(side) == IF side = 1 THEN 3 ELSE -4

\* The conditions of castling for the king on square i towards a side
CastlingAllowed(g, i, side) ==
  LET col   == i % 8
      row   == i \div 8
      king  == g.board[i]
      rcol  == col + RookOffset(side)
  IN  /\ king.times_moved = 0
      /\ rcol \in 0 .. 7
      /\ g.board[rcol + row * 8] # None
      /\ g.board[rcol + row * 8].rank = "R"
      /\ g.board[rcol + row * 8].color = king.color
      /\ g.board[rcol + row * 8].times_moved = 0
      /\ \A c \in 0 .. 7 :
           ((c - col) * side > 0 /\ (rcol - c) * side > 0) => g.board[c + row * 8] = None
      /\ \A c \in {col, col + side, col + 2 * side} :
           ~Attacked(g, c + row * 8, king.color)

\* C12: for a king on its turn with the castling conditions met, make_move
\* of the king two files towards the rook returns true and leaves the king
\* two files over and the rook on the square the king crossed, both with
\* times_moved = 1.
C12_CastlingIsExecuted ==
  \A i \in Squares : \A side \in {1, -1} :
    ( /\ board[i] # None
      /\ board[i].rank = "K"
      /\ board[i].color = turn_owner
      /\ game_state \in {"Running", "Check"}
      /\ CastlingAllowed(game, i, side) )
    => LET col == i % 8
           row == i \div 8
           r   == make_move(game, <<col, row>>, <<col + 2 * side, row>>, TRUE)
           k   == r.game.board[col + 2 * side + row * 8]
           rk  == r.game.board[col + side + row * 8]
       IN  /\ r.ret = "true"
           /\ k # None /\ k.rank = "K" /\ k.color = board[i].color /\ k.times_moved = 1
           /\ rk # None /\ rk.rank = "R" /\ rk.color = board[i].color /\ rk.times_moved = 1
           /\ r.game.board[i] = None
           /\ r.game.board[col + RookOffset(side) + row * 8] = None

\* A key of get_moves for the king on square i is a two-square castling move
CastlingKeys(i) == {key \in Squares : key \div 8 = i \div 8
                                      /\ ((key % 8) - (i % 8)) \in {2, -2}}

\* C13: get_moves never offers, and make_move never executes, a two-square
\* castling move of a king unless the king and the rook of its colour on the
\* corner offset are unmoved, the squares between them are empty and the
\* king's origin, crossed and destination squares are safe for its colour.
C13_NoCastlingWithoutConditions ==
  /\ [](\A i \in Squares :
          (board[i] # None /\ board[i].rank = "K") =>
             \A key \in CastlingKeys(i) \cap DOMAIN get_moves(game, i % 8, i \div 8) :
                CastlingAllowed(game, i, IF key > i THEN 1 ELSE -1))
  /\ [][(( /\ (call').op = "make_move"
           /\ ret' = "true"
           /\ board[Idx((call').from)] # None
           /\ board[Idx((call').from)].rank = "K"
           /\ Idx((call').to) \in CastlingKeys(Idx((call').from)) )
         => CastlingAllowed(game, Idx((call').from),
                            IF Idx((call').to) > Idx((call').from) THEN 1 ELSE -1))]_vars

\* A king that has moved is on its turn, the two squares beside it on its
\* row are empty, and get_moves gives it moves
C13_Witness ==
  \E i \in Squares : \E side \in {1, -1} :
    /\ board[i] # None
    /\ board[i].rank = "K"
    /\ board[i].color = turn_owner
    /\ board[i].times_moved > 0
    /\ (i % 8) + 2 * side \in 0 .. 7
    /\ board[i + side] = None
    /\ board[i + 2 * side] = None
    /\ DOMAIN get_moves(game, i % 8, i \div 8) # {}

\* In game g the move from square i to square key is a pawn stepping
\* diagonally onto an empty square: an en passant move
IsEnPassant(g, i, key) ==
  /\ g.board[i] # None
  /\ g.board[i].rank = "p"
  /\ (key % 8) # (i % 8)
  /\ key \div 8 = (i \div 8) + (IF g.board[i].color = White THEN 1 ELSE -1)
  /\ g.board[key] = None

\* The square beside the pawn on i, on the file of the destination key
Passed(i, key) == (key % 8) + (i \div 8) * 8

\* C14: whenever make_move executes an en passant move, towards the higher
\* or the lower file, the one piece removed is the enemy pawn that stood
\* beside the capturing pawn on the file of the destination, that square is
\* empty afterwards, and the capturing pawn stands on the destination with
\* times_moved increased by 1.
C14_EnPassantRemovesPassedPawn ==
  [][(( /\ (call').op = "make_move"
        /\ ret' = "true"
        /\ IsEnPassant(game, Idx((call').from), Idx((call').to)) )
      => LET from == Idx((call').from)
             to   == Idx((call').to)
             v    == Passed(from, to)
         IN  /\ board[v] # None
             /\ board[v].rank = "p"
             /\ board[v].color = Enemy(board[from].color)
             /\ board'[v] = None
             /\ board'[from] = None
             /\ board'[to] # None
             /\ board'[to].rank = "p"
             /\ board'[to].color = board[from].color
             /\ board'[to].times_moved = board[from].times_moved + 1
             /\ \A j \in Squares \ {v, from, to} : board'[j] = board[j])]_vars

\* The turn_count in which the colour that is not to move made the latest ply
PrecedingPlyTurn(g) == IF g.turn_owner = White THEN g.turn_count - 1 ELSE g.turn_count

\* C15: a pawn of the side to move is offered an en passant destination only
\* if the square beside it on the side of the destination holds an enemy
\* pawn with times_moved = 1 that moved on the immediately preceding ply, and
\* the pawn itself stands on its fifth rank (row 4 for White, row 3 for
\* Black).
C15_EnPassantOnlyRightAfterDoubleStep ==
  \A i \in Squares :
    (board[i] # None /\ board[i].rank = "p" /\ board[i].color = turn_owner) =>
      \A key \in DOMAIN get_moves(game, i % 8, i \div 8) :
        IsEnPassant(game, i, key) =>
          LET n == board[Passed(i, key)]
          IN  /\ n # None
              /\ n.rank = "p"
              /\ n.color = Enemy(board[i].color)
              /\ n.times_moved = 1
              /\ n.last_moved = PrecedingPlyTurn(game)
              /\ i \div 8 = (IF board[i].color = White THEN 4 ELSE 3)

\* The same statement for the pawns of White
C15_WhitePawns ==
  \A i \in Squares :
    (board[i] # None /\ board[i].rank = "p" /\ board[i].color = turn_owner
     /\ turn_owner = White) =>
      \A key \in DOMAIN get_moves(game, i % 8, i \div 8) :
        IsEnPassant(game, i, key) =>
          LET n == board[Passed(i, key)]
          IN  /\ n # None
              /\ n.rank = "p"
              /\ n.color = Black
              /\ n.times_moved = 1
              /\ n.last_moved = PrecedingPlyTurn(game)
              /\ i \div 8 = 4

\* The eight L-offsets of a knight
LOffsets == {<<1, 2>>, <<2, 1>>, <<-1, 2>>, <<-2, 1>>,
             <<1, -2>>, <<2, -1>>, <<-1, -2>>, <<-2, -1>>}

\* The on-board squares one L-step from square i that are empty or hold a
\* piece of the other colour
KnightSquares(g, i) ==
  {sq \in Squares :
     /\ <<(sq % 8) - (i % 8), (sq \div 8) - (i \div 8)>> \in LOffsets
     /\ (g.board[sq] = None \/ g.board[sq].color # g.board[i].color)}

\* C16: on every board the destinations prune gives a knight are exactly the
\* on-board squares at one of the eight L-offsets from its origin that are
\* empty or hold an enemy piece.
C16_KnightMovesAreSingleLSteps ==
  \A i \in Squares :
    (board[i] # None /\ board[i].rank = "N") =>
      prune(MovesOf(board[i])[1], game, <<i % 8, i \div 8>>) = KnightSquares(game, i)

\* Every destination prune gives a knight lies on a line of L-steps from its
\* origin, and every square one L-step away that is empty or the enemy's is
\* among the destinations
C16_KnightRides ==
  \A i \in Squares :
    (board[i] # None /\ board[i].rank = "N") =>
      LET dests == prune(MovesOf(board[i])[1], game, <<i % 8, i \div 8>>)
      IN  /\ KnightSquares(game, i) \subseteq dests
          /\ \A sq \in dests :
               \E o \in LOffsets : \E n \in 1 .. 7 :
                  /\ sq % 8 = (i % 8) + n * o[1]
                  /\ sq \div 8 = (i \div 8) + n * o[2]

\* The templates of a colour's pieces
TemplatesOf(color) ==
  UNION {{FactoryMoves(rank, color)[k] : k \in DOMAIN FactoryMoves(rank, color)} :
         rank \in Ranks}

\* The requirements that occur in them
Requirements(color) ==
  UNION {{m.requirements[r] : r \in DOMAIN m.requirements} : m \in TemplatesOf(color)}

\* The requirement lists tried on a template: one or two of the requirements
RequirementLists(color) ==
  {<<r1>> : r1 \in Requirements(color)}
    \cup {<<r1, r2>> : r1 \in Requirements(color), r2 \in Requirements(color)}

\* C17: a mirror variant of a template yields destinations only if every
\* PieceStatus of the template's requirements holds under that mirror.
C17_AllRequirementsMustHold ==
  \A i \in Squares :
    board[i] # None =>
      \A k \in DOMAIN MovesOf(board[i]) : \A reqs \in RequirementLists(board[i].color) :
        LET m   == [MovesOf(board[i])[k] EXCEPT !.requirements = reqs]
            pos == <<i % 8, i \div 8>>
        IN  \A d \in DOMAIN m.directions : \A mirror \in Mirrors :
              PruneVariant(m, game, pos, m.directions[d], mirror) # {}
                => \A r \in DOMAIN reqs : CheckCondition(game, pos, reqs[r], mirror)

\* The same statement for the first requirement of the list alone
C17_FirstRequirementMustHold ==
  \A i \in Squares :
    board[i] # None =>
      \A k \in DOMAIN MovesOf(board[i]) : \A reqs \in RequirementLists(board[i].color) :
        LET m   == [MovesOf(board[i])[k] EXCEPT !.requirements = reqs]
            pos == <<i % 8, i \div 8>>
        IN  \A d \in DOMAIN m.directions : \A mirror \in Mirrors :
              PruneVariant(m, game, pos, m.directions[d], mirror) # {}
                => CheckCondition(game, pos, reqs[1], mirror)

\* C18: is_safe_position(c, r, C) returns true if and only if no piece of the
\* colour opposite to C has (c,r) in its danger zone.
C18_SafeIffNotAttacked ==
  \A sq \in Squares : \A C \in {White, Black} :
    IsSafePosition(game, sq % 8, sq \div 8, C) <=> ~Attacked(game, sq, C)

\* The squares in the danger zone of some piece of the colour opposite to
\* the given one
EnemyDangerZone(g, color) ==
  UNION {get_danger_zone(g.board[i], i % 8, i \div 8, g) :
           i \in {j \in Squares : g.board[j] # None /\ g.board[j].color # color}}

\* C18 as amended: is_safe_position(c, r, C) returns true if and only if C is
\* not the turn owner or no piece of the colour opposite to C has (c,r) in
\* its danger zone. Checked on every Game value a construction or a call
\* that changed it has produced; a refused call leaves the Game value as it
\* was.
C18_SafeIffNotAttackedOnTurn ==
  /\ [](ret \notin {"false", "panic"} =>
          LET zone == EnemyDangerZone(game, turn_owner)
          IN  \A sq \in Squares : \A C \in {White, Black} :
                IsSafePosition(game, sq % 8, sq \div 8, C)
                  <=> (C # turn_owner \/ sq \notin zone))
  /\ [][(ret' \in {"false", "panic"}) => GameUnchanged]_vars

\* The turn owner's king stands on a square is_safe_position calls unsafe,
\* and the other king on a square that is attacked but called safe
C18_Witness ==
  /\ \E k \in CrucialSquares(game, turn_owner) :
       ~IsSafePosition(game, k % 8, k \div 8, turn_owner)
  /\ \E sq \in Squares :
       /\ Attacked(game, sq, Enemy(turn_owner))
       /\ IsSafePosition(game, sq % 8, sq \div 8, Enemy(turn_owner))

\* The unit steps of the rays of a sliding rank
SliderRays(rank) ==
  LET straight == {<<0, 1>>, <<1, 0>>, <<0, -1>>, <<-1, 0>>}
      diagonal == {<<1, 1>>, <<1, -1>>, <<-1, 1>>, <<-1, -1>>}
  IN  CASE rank = "R" -> straight
        [] rank = "B" -> diagonal
        [] rank = "Q" -> straight \cup diagonal

\* Is the n-th square of the ray d from square i on the board
OnRay(i, d, n) ==
  /\ (i % 8) + n * d[1] \in 0 .. 7
  /\ (i \div 8) + n * d[2] \in 0 .. 7

\* The n-th square of the ray d from square i
RaySquare(i, d, n) == ((i % 8) + n * d[1]) + ((i \div 8) + n * d[2]) * 8

\* The steps of the ray d from square i that reach an occupied square
Blockers(b, i, d) == {n \in 1 .. 7 : OnRay(i, d, n) /\ b[RaySquare(i, d, n)] # None}

\* C19: for a rook, bishop or queen on any board, the destinations of its
\* template are, along each ray, every empty square from step 1 up to the
\* first occupied square and that occupied square only if it holds an enemy
\* piece; no square of the mover's colour, not the origin, nothing beyond the
\* first occupied square and nothing off the rays.
C19_SlideStopsAtFirstPiece ==
  (call.op = "prune" /\ board[call.from].rank \in {"R", "B", "Q"}) =>
    LET i     == call.from
        color == board[i].color
        rays  == SliderRays(board[i].rank)
    IN  /\ \A d \in rays : \A n \in 1 .. 7 :
             OnRay(i, d, n) =>
               LET sq     == RaySquare(i, d, n)
                   before == \A k \in Blockers(board, i, d) : n < k
                   first  == /\ n \in Blockers(board, i, d)
                             /\ \A k \in Blockers(board, i, d) : n <= k
               IN  sq \in call.moves
                     <=> (before \/ (first /\ board[sq].color # color))
        /\ \A sq \in call.moves :
             /\ sq # i
             /\ \E d \in rays : \E n \in 1 .. 7 : OnRay(i, d, n) /\ sq = RaySquare(i, d, n)

\* The destinations of a slider have been asked for that has an enemy piece
\* with another piece behind it on one ray and a piece of its own colour on
\* another
C19_Witness ==
  /\ call.op = "prune"
  /\ board[call.from].rank \in {"R", "B", "Q"}
  /\ LET i     == call.from
         color == board[i].color
         rays  == SliderRays(board[i].rank)
     IN  /\ \E d \in rays : \E n \in Blockers(board, i, d) :
              /\ \A k \in Blockers(board, i, d) : n <= k
              /\ board[RaySquare(i, d, n)].color # color
              /\ \E k \in Blockers(board, i, d) : k > n
              /\ RaySquare(i, d, n) \in call.moves
         /\ \E d \in rays : \E n \in Blockers(board, i, d) :
              /\ \A k \in Blockers(board, i, d) : n <= k
              /\ board[RaySquare(i, d, n)].color = color

\* C20: the single-step template of a pawn gives the square ahead (towards
\* row 7 for White, row 0 for Black) if and only if that square is empty; the
\* double-step template gives the square two ahead if and only if the pawn
\* has times_moved = 0 and both squares ahead are empty; neither gives an
\* occupied square, and a pawn that has moved gets no double step.
C20_PawnForwardSteps ==
  \A i \in Squares :
    (board[i] # None /\ board[i].rank = "p") =>
      LET p        == board[i]
          fwd      == IF p.color = White THEN 1 ELSE -1
          Ahead(n) == i + 8 * n * fwd
          Free(n)  == ((i \div 8) + n * fwd) \in 0 .. 7 /\ board[Ahead(n)] = None
          single   == prune(MovesOf(p)[1], game, <<i % 8, i \div 8>>)
          double   == prune(MovesOf(p)[2], game, <<i % 8, i \div 8>>)
      IN  /\ single = (IF Free(1) THEN {Ahead(1)} ELSE {})
          /\ double = (IF p.times_moved = 0 /\ Free(1) /\ Free(2)
                       THEN {Ahead(2)} ELSE {})
          /\ \A sq \in single \cup double : board[sq] = None
          /\ p.times_moved > 0 => double = {}

\* A pawn that has moved once stands with both squares ahead of it empty,
\* and a pawn that has not moved stands behind an occupied square
C20_Witness ==
  /\ \E i \in Squares :
       /\ board[i] # None /\ board[i].rank = "p" /\ board[i].times_moved = 1
       /\ LET fwd == IF board[i].color = White THEN 1 ELSE -1
          IN  /\ ((i \div 8) + 2 * fwd) \in 0 .. 7
              /\ board[i + 8 * fwd] = None
              /\ board[i + 16 * fwd] = None
              /\ i + 8 * fwd \in DOMAIN get_moves(game, i % 8, i \div 8)
  /\ \E i \in Squares :
       /\ board[i] # None /\ board[i].rank = "p" /\ board[i].times_moved = 0
       /\ board[i + 8 * (IF board[i].color = White THEN 1 ELSE -1)] # None

\* The forward-diagonal squares of the pawn on square i that are on the
\* board and hold a piece of the other colour
PawnTargets(b, i) ==
  LET fwd == IF b[i].color = White THEN 1 ELSE -1
  IN  {sq \in Squares :
         /\ (sq \div 8) - (i \div 8) = fwd
         /\ (sq % 8) - (i % 8) \in {-1, 1}
         /\ b[sq] # None
         /\ b[sq].color # b[i].color}

\* C21: the diagonal-capture template of a pawn gives a forward-diagonal
\* square if and only if that square is on the board and holds an enemy
\* piece; it gives nothing when both forward diagonals are empty or hold
\* pieces of the pawn's colour.
C21_PawnCapturesEnemyOnDiagonal ==
  \A i \in Squares :
    (board[i] # None /\ board[i].rank = "p") =>
      prune(MovesOf(board[i])[3], game, <<i % 8, i \div 8>>) = PawnTargets(board, i)

\* A pawn on its turn is offered the capture of an enemy piece on one forward
\* diagonal while its other forward diagonal is empty, and some pawn has a
\* piece of its own colour on a forward diagonal
C21_Witness ==
  /\ \E i \in Squares :
       /\ board[i] # None /\ board[i].rank = "p" /\ board[i].color = turn_owner
       /\ Cardinality(PawnTargets(board, i)) = 1
       /\ PawnTargets(board, i) \subseteq DOMAIN get_moves(game, i % 8, i \div 8)
       /\ (i % 8) \in 1 .. 6
  /\ \E i \in Squares :
       /\ board[i] # None /\ board[i].rank = "p"
       /\ \E sq \in Squares :
            /\ (sq \div 8) - (i \div 8) = (IF board[i].color = White THEN 1 ELSE -1)
            /\ (sq % 8) - (i % 8) \in {-1, 1}
            /\ board[sq] # None
            /\ board[sq].color = board[i].color

\* C22: in every reachable state with game_state Running or Check,
\* game_state is Check exactly when a crucial piece of the turn owner stands
\* on a square attacked by the opponent, and the turn owner has at least one
\* legal move.
C22_CheckIffKingAttacked ==
  game_state \in {"Running", "Check"} =>
    /\ (game_state = "Check")
         <=> (\E k \in CrucialSquares(game, turn_owner) : Attacked(game, k, turn_owner))
    /\ \E i \in Squares :
         /\ board[i] # None
         /\ board[i].color = turn_owner
         /\ DOMAIN get_moves(game, i % 8, i \div 8) # {}

\* A move has just put the side now to move in check
C22_Witness ==
  /\ ret = "true"
  /\ game_state = "Check"
  /\ \E k \in CrucialSquares(game, turn_owner) : Attacked(game, k, turn_owner)

(***************************************************************************)
(* The calls of one get_moves or make_move, one call chain at a time: the  *)
(* variable call holds the functions in progress, outermost first, and the *)
(* arguments of the innermost one. Every action is a call site of the     *)
(* innermost function; functions that call nothing but piece_at,          *)
(* check_piece_status, position, just_move and capture have no frame.     *)
(* All loops of the code are for loops over finite ranges, so a call      *)
(* terminates if and only if every one of its call chains is finite.      *)
(***************************************************************************)

\* The scripted games whose positions the calls are made in
TraceScripts == {"mate", "castle"}

\* How many moves of its line a game is played before the calls are made
TracePlies == 4

\* No call in progress
Idle == [op |-> "idle", stack |-> <<>>]

CallInit ==
  /\ board = NewGame.board
  /\ turn_owner = NewGame.turn_owner
  /\ turn_count = NewGame.turn_count
  /\ game_state = NewGame.game_state
  /\ ret = "none"
  /\ call = Idle
  /\ script \in TraceScripts
  /\ ply = 0

\* The innermost function in progress is fn
Running(fn) == call.stack # <<>> /\ call.stack[Len(call.stack)] = fn

\* The innermost function calls fn on the game g with these arguments
Push(fn, g, pos, to, k, color, dir) ==
  /\ call' = [op |-> "trace", stack |-> Append(call.stack, fn), g |-> g,
              pos |-> pos, to |-> to, k |-> k, color |-> color, dir |-> dir]
  /\ UNCHANGED <<board, turn_owner, turn_count, game_state, ret, script, ply>>

\* The template a prune or prune_dir frame works on
FrameMove == MovesOf(PieceAt(call.g, call.pos[1], call.pos[2]))[call.k]

\* The variables after a whole call of make_move that returned r
Played(r) ==
  /\ r.ret = "true"
  /\ board' = r.game.board
  /\ turn_owner' = r.game.turn_owner
  /\ turn_count' = r.game.turn_count
  /\ game_state' = r.game.game_state
  /\ ret' = r.ret
  /\ ply' = ply + 1
  /\ UNCHANGED <<call, script>>

\* A whole call of make_move with the next move of the line
Play ==
  /\ call.stack = <<>>
  /\ ply < TracePlies
  /\ ply < Len(ScriptLine(script))
  /\ Played(make_move(game, ScriptLine(script)[ply + 1][1],
                      ScriptLine(script)[ply + 1][2], TRUE))

\* A caller calls get_moves(col, row)
EnterGetMoves ==
  /\ call.stack = <<>>
  /\ \E sq \in Squares :
       Push("get_moves", game, <<sq % 8, sq \div 8>>, <<0, 0>>, 0, turn_owner, <<0, 0>>)

\* A caller calls make_move(from, to)
EnterMakeMove ==
  /\ call.stack = <<>>
  /\ \E m \in ScriptMoves(script, ply) :
       Push("make_move", game, m[1], m[2], 0, turn_owner, <<0, 0>>)

\* get_moves: p.get_all_possible_moves(col, row, self)
GetMovesCallsAllPossibleMoves ==
  /\ Running("get_moves")
  /\ PieceAt(call.g, call.pos[1], call.pos[2]) # None
  /\ Push("all_possible_moves", call.g, call.pos, <<0, 0>>, 0, call.color, <<0, 0>>)

\* make_move: piece.get_all_possible_moves(from.0, from.1, self)
MakeMoveCallsAllPossibleMoves ==
  /\ Running("make_move")
  /\ call.g.game_state \in {"Running", "Check"}
  /\ PieceAt(call.g, call.pos[1], call.pos[2]) # None
  /\ PieceAt(call.g, call.pos[1], call.pos[2]).color = call.g.turn_owner
  /\ Push("all_possible_moves", call.g, call.pos, <<0, 0>>, 0, call.color, <<0, 0>>)

\* make_move: self.increment_turn() after just_execute_move
MakeMoveCallsIncrementTurn ==
  /\ Running("make_move")
  /\ call.g.game_state \in {"Running", "Check"}
  /\ PieceAt(call.g, call.pos[1], call.pos[2]) # None
  /\ PieceAt(call.g, call.pos[1], call.pos[2]).color = call.g.turn_owner
  /\ ~Overflows(call.to)
  /\ LET moves == get_moves(call.g, call.pos[1], call.pos[2])
         key   == U8(call.to[1] + U8(call.to[2] * 8))
     IN  /\ key \in DOMAIN moves
         /\ LET g2 == just_execute_move(call.g, call.pos, call.to, moves[key])
            IN  /\ g2.game_state # "Promote"
                /\ Push("increment_turn", g2, <<0, 0>>, <<0, 0>>, 0, g2.turn_owner, <<0, 0>>)

\* The game of an increment_turn frame once the turn owner is flipped
Flipped(g) ==
  IF g.turn_owner = White
  THEN [g EXCEPT !.turn_owner = Black]
  ELSE [g EXCEPT !.turn_owner = White, !.turn_count = g.turn_count + 1]

\* increment_turn: self.in_check()
IncrementTurnCallsInCheck ==
  /\ Running("increment_turn")
  /\ Push("in_check", Flipped(call.g), <<0, 0>>, <<0, 0>>, 0,
          Flipped(call.g).turn_owner, <<0, 0>>)

\* increment_turn: self.has_moves()
IncrementTurnCallsHasMoves ==
  /\ Running("increment_turn")
  /\ LET g1 == Flipped(call.g)
         g2 == [g1 EXCEPT !.game_state = IF in_check(g1) THEN "Check" ELSE "Running"]
     IN  Push("has_moves", g2, <<0, 0>>, <<0, 0>>, 0, g2.turn_owner, <<0, 0>>)

\* in_check: self.is_safe_position(i % 8, i >> 3, p.color), for the squares
\* the loop reaches before it returns
InCheckCallsIsSafePosition ==
  /\ Running("in_check")
  /\ \E i \in Squares :
       LET Asked(j) == /\ call.g.board[j] # None
                       /\ call.g.board[j].is_crucial
                       /\ call.g.board[j].color = call.g.turn_owner
       IN  /\ Asked(i)
           /\ \A j \in 0 .. i - 1 :
                Asked(j) => IsSafePosition(call.g, j % 8, j \div 8, call.g.board[j].color)
           /\ Push("is_safe_position", call.g, <<i % 8, i \div 8>>, <<0, 0>>, 0,
                   call.g.board[i].color, <<0, 0>>)

\* has_moves: self.get_moves(i % 8, i >> 3), for the squares the loop
\* reaches before it returns
HasMovesCallsGetMoves ==
  /\ Running("has_moves")
  /\ \E i \in Squares :
       LET Own(j) == call.g.board[j] # None /\ call.g.board[j].color = call.g.turn_owner
       IN  /\ Own(i)
           /\ \A j \in 0 .. i - 1 :
                Own(j) => DOMAIN get_moves(call.g, j % 8, j \div 8) = {}
           /\ Push("get_moves", call.g, <<i % 8, i \div 8>>, <<0, 0>>, 0,
                   call.g.turn_owner, <<0, 0>>)

\* all_possible_moves: m.prune(game, (col, row)) for every template
AllPossibleMovesCallsPrune ==
  /\ Running("all_possible_moves")
  /\ \E k \in DOMAIN MovesOf(PieceAt(call.g, call.pos[1], call.pos[2])) :
       Push("prune", call.g, call.pos, <<0, 0>>, k,
            PieceAt(call.g, call.pos[1], call.pos[2]).color, <<0, 0>>)

\* all_possible_moves: game.is_safe_move((col, row), (key % 8, key >> 3),
\* &val, self.color) for every key of a batch
AllPossibleMovesCallsIsSafeMove ==
  /\ Running("all_possible_moves")
  /\ LET piece == PieceAt(call.g, call.pos[1], call.pos[2])
     IN  \E k \in DOMAIN MovesOf(piece) :
           \E key \in prune(MovesOf(piece)[k], call.g, call.pos) :
             Push("is_safe_move", call.g, call.pos, <<key % 8, key \div 8>>, k,
                  piece.color, <<0, 0>>)

\* is_safe_move: gc.is_safe_position(i % 8, i >> 3, color) on the clone the
\* move was executed on, for the squares the loop reaches before it returns
IsSafeMoveCallsIsSafePosition ==
  /\ Running("is_safe_move")
  /\ LET gc == just_execute_move(call.g, call.pos, call.to, FrameMove.effect)
         Asked(j) == /\ gc.board[j] # None
                     /\ gc.board[j].is_crucial
                     /\ gc.board[j].color = call.color
     IN  \E i \in Squares :
           /\ Asked(i)
           /\ \A j \in 0 .. i - 1 :
                Asked(j) => IsSafePosition(gc, j % 8, j \div 8, call.color)
           /\ Push("is_safe_position", gc, <<i % 8, i \div 8>>, <<0, 0>>, 0,
                   call.color, <<0, 0>>)

\* is_safe_position: piece.get_danger_zone(i % 8, i >> 3, self), for the
\* pieces the loop reaches before it returns; none when the colour is not
\* the turn owner's
IsSafePositionCallsGetDangerZone ==
  /\ Running("is_safe_position")
  /\ call.color = call.g.turn_owner
  /\ \E i \in Squares :
       LET Foe(j) == call.g.board[j] # None /\ call.g.board[j].color # call.color
           sq     == U8(call.pos[1] + call.pos[2] * 8)
       IN  /\ Foe(i)
           /\ \A j \in 0 .. i - 1 :
                Foe(j) => sq \notin get_danger_zone(call.g.board[j], j % 8, j \div 8, call.g)
           /\ Push("get_danger_zone", call.g, <<i % 8, i \div 8>>, <<0, 0>>, 0,
                   call.g.board[i].color, <<0, 0>>)

\* get_danger_zone asking the piece for its safe moves, all_possible_moves,
\* in place of the destinations of its templates
GetDangerZoneCallsAllPossibleMoves ==
  /\ Running("get_danger_zone")
  /\ Push("all_possible_moves", call.g, call.pos, <<0, 0>>, 0,
          PieceAt(call.g, call.pos[1], call.pos[2]).color, <<0, 0>>)

\* get_danger_zone: m.prune(game, (col, row)) for every template that can
\* capture or has a Capture effect
GetDangerZoneCallsPrune ==
  /\ Running("get_danger_zone")
  /\ LET piece == PieceAt(call.g, call.pos[1], call.pos[2])
     IN  \E k \in DOMAIN MovesOf(piece) :
           /\ MovesOf(piece)[k].can_capture \/ HasCaptureEffect(MovesOf(piece)[k])
           /\ Push("prune", call.g, call.pos, <<0, 0>>, k, piece.color, <<0, 0>>)

\* prune: prune_dir for every direction and mirror whose conditions hold,
\* unless the template is safe_throughout and the origin is safe
PruneCallsPruneDir ==
  /\ Running("prune")
  /\ ~(FrameMove.safe_throughout
       /\ IsSafePosition(call.g, call.pos[1], call.pos[2], FrameMove.color))
  /\ \E d \in DOMAIN FrameMove.directions : \E mirror \in Mirrors :
       /\ MirrorApplies(FrameMove, mirror)
       /\ check_conditions(call.g, call.pos, FrameMove.requirements, mirror)
       /\ Push("prune_dir", call.g, call.pos, <<0, 0>>, call.k, FrameMove.color,
               MirroredDirection(FrameMove.directions[d], mirror))

\* The squares a prune_dir frame's loop reaches
RECURSIVE Reached(_)

Reached(i) ==
  LET max_s == IF FrameMove.maximum_slide = -1 THEN 8 ELSE FrameMove.maximum_slide
      col   == call.pos[1] + i * call.dir[1]
      row   == call.pos[2] + i * call.dir[2]
  IN  IF i > max_s \/ col < 0 \/ row < 0 \/ col >= 8 \/ row >= 8 THEN {}
      ELSE {<<col, row>>}
           \cup IF ~IsSafePosition(call.g, col, row, call.color) THEN {}
                ELSE IF PieceAt(call.g, col, row) # None /\ i > 0 THEN {}
                ELSE Reached(i + 1)

\* prune: game.is_safe_position(pos.0, pos.1, self.color), and prune_dir:
\* game.is_safe_position(col, row, *color) at every square its loop
\* reaches, both only for a safe_throughout template
SafeThroughoutCallsIsSafePosition ==
  /\ call.stack # <<>>
  /\ call.stack[Len(call.stack)] \in {"prune", "prune_dir"}
  /\ FrameMove.safe_throughout
  /\ \E sq \in (IF Running("prune") THEN {call.pos} ELSE Reached(0)) :
       Push("is_safe_position", call.g, sq, <<0, 0>>, 0, FrameMove.color, <<0, 0>>)

CallNext ==
  \/ Play
  \/ EnterGetMoves
  \/ EnterMakeMove
  \/ GetMovesCallsAllPossibleMoves
  \/ MakeMoveCallsAllPossibleMoves
  \/ MakeMoveCallsIncrementTurn
  \/ IncrementTurnCallsInCheck
  \/ IncrementTurnCallsHasMoves
  \/ InCheckCallsIsSafePosition
  \/ HasMovesCallsGetMoves
  \/ AllPossibleMovesCallsPrune
  \/ AllPossibleMovesCallsIsSafeMove
  \/ IsSafeMoveCallsIsSafePosition
  \/ IsSafePositionCallsGetDangerZone
  \/ GetDangerZoneCallsPrune
  \/ PruneCallsPruneDir
  \/ SafeThroughoutCallsIsSafePosition

CallSpec == CallInit /\ [][CallNext]_vars

\* The number of is_safe_move simulations in progress
SimulationDepth ==
  Cardinality({i \in DOMAIN call.stack : call.stack[i] = "is_safe_move"})

\* C23: every call of get_moves and make_move terminates, and while an
\* is_safe_move simulation is in progress no further is_safe_move
\* simulation is started: at most one is in progress at any time. For
\* termination: every call makes the chain of functions in progress longer
\* by one, and no chain is ever longer than ten functions.
C23_SimulationNeverNests ==
  /\ [](SimulationDepth <= 1 /\ Len(call.stack) <= 10)
  /\ [][ply' = ply => Len(call'.stack) = Len(call.stack) + 1]_vars

\* Inside a make_move, has_moves asks for the moves of a piece and the
\* simulation of one of them has reached prune_dir through is_safe_position
\* and get_danger_zone
C23_Witness ==
  /\ call.stack # <<>>
  /\ call.stack[1] = "make_move"
  /\ \E i \in DOMAIN call.stack : call.stack[i] = "has_moves"
  /\ SimulationDepth = 1
  /\ Running("prune_dir")

\* The number of pieces of a colour on a board
Pieces(b, color) == Cardinality({i \in Squares : b[i] # None /\ b[i].color = color})

\* C24: no successful make_move removes a piece of the mover's own colour
\* from the board, and a pawn changes file only in a move that removes
\* exactly one enemy piece.
C24_OnlyEnemyPiecesAreRemoved ==
  [][(((call').op = "make_move" /\ ret' = "true")
      => LET from  == Idx((call').from)
             to    == Idx((call').to)
             mover == board[from].color
         IN  /\ Pieces(board', mover) = Pieces(board, mover)
             /\ (board[from].rank = "p" /\ (to % 8) # (from % 8))
                  => Pieces(board', Enemy(mover)) = Pieces(board, Enemy(mover)) - 1)]_vars

\* C25: make_move(from, to) with a target column or row outside 0..7 returns
\* false and changes nothing: no make_move returns true for such a target
\* (as it would for an alias of an on-board square with the same index), none
\* ends in a panic, and one that returns false leaves the game as it was.
C25_OffBoardTargetIsRejected ==
  [][((call').op = "make_move"
      => /\ ret' = "true" => ((call').to[1] \in 0 .. 7 /\ (call').to[2] \in 0 .. 7)
         /\ ret' # "panic"
         /\ ret' = "false" => GameUnchanged)]_vars

\* C26: in every state reached by make_move and promote calls with on-board
\* coordinates, game_state is Promote if and only if some can_promote piece
\* stands on its far rank, which is if and only if get_promotion returns a
\* piece; and in Promote that piece belongs to the turn owner.
C26_PromoteIffPawnOnFarRank ==
  /\ (game_state = "Promote") <=> (Pending(board) # {})
  /\ (Pending(board) # {}) <=> (get_promotion(game) # {})
  /\ \A pos \in get_promotion(game) :
       /\ Idx(pos) \in Pending(board)
       /\ PieceAt(game, pos[1], pos[2]).color = turn_owner

\* A make_move has just put a pawn on its far rank
C26_Witness ==
  /\ call.op = "make_move"
  /\ ret = "true"
  /\ game_state = "Promote"
  /\ get_promotion(game) = {call.to}

====
